---- MODULE Spec2Model ----
(***************************************************************************)
(* Session and authorization layer of the scanner's browser client:        *)
(* localStorage (token, user, i18nextLng), the axios client with its       *)
(* request and response interceptors, the session context, the route      *)
(* guard, the login page, the navbar and the scan list page.               *)
(*                                                                         *)
(* One browser tab is modelled.  A response is handled in one step: the    *)
(* response interceptor and the awaiting caller's continuation run in the  *)
(* same event-loop turn, so nothing interleaves between them.              *)
(***************************************************************************)
EXTENDS Integers, Sequences, FiniteSets, Bags, TLC

\* ------------------------------------------------------------------ bounds
MaxInFlight == 2   \* requests awaiting a response at one time
MaxTokens == 2     \* tokens the backend ever issues

\* ------------------------------------------------------- program constants
DEV == 1
ANALYST == 2
ADMIN == 3
Roles == {DEV, ANALYST, ADMIN}

PENDING == 1
RUNNING == 2
COMPLETED == 3
FAILED == 4
ScanStatus == {PENDING, RUNNING, COMPLETED, FAILED}

Unauthorized == 401
OK == 200
ServerError == 500
NoResponse == 0    \* error.response is undefined (network failure)
NoUser == 0        \* user: null in the session context

LoginPath == "/login"
DefaultPath == "/"
ProtectedPaths == {"/", "/scans", "/scans/:id", "/cwe", "/users"}
Routes == ProtectedPaths \cup {LoginPath}
\* the locations visited: the login page, the default view, a page that fetches
\* and the page with an allow-list
Paths == {LoginPath, DefaultPath, "/scans", "/users"}

Token(i) == "t" \o ToString(i)
Tokens == {Token(i) : i \in 1..MaxTokens}

\* -------------------------------------------------------------- variables
VARIABLES
  localStorage,  \* partial function key -> string: "token", "user", "i18nextLng"
  href,          \* the location the router renders
  pendingHref,   \* the target last assigned to window.location.href, "none" if none
  user,          \* session context: NoUser or the role of the current user
  isLoading,     \* session context: the restore fetch has not settled
  inflight,      \* bag of the request configs awaiting a response
  last,          \* the response handled by the step just taken and what its
                 \* caller observed; NoLast after any other step
  loginPage,     \* LoginPage state: [error, loading]
  scansPage,     \* ScansPage state: [mounted, scans, loading, creating]
  detailsPage,   \* ScanDetailsPage state: [id, scan, vulnerabilities, loading],
                 \* id the :id of the route, 0 while the page is not mounted
  dashboardPage, \* DashboardPage state: [mounted, scans, loading]
  usersPage,     \* UsersPage state: [mounted, users, loading, creating]
  cwePage,       \* CWEPage state: [mounted, cwes, loading]
  valid,         \* backend: tokens it accepts
  issued,        \* backend: how many tokens it has issued
  backend        \* backend: [status, shape], status[i] the status of scan i and
                 \* shape the optional fields its scan list carries

vars == <<localStorage, href, pendingHref, user, isLoading, inflight, last,
          loginPage, scansPage, detailsPage, dashboardPage, usersPage, cwePage,
          valid, issued, backend>>

\* ------------------------------------------------------------ localStorage
\* getItem: the stored string, or null (present = FALSE) when the key is unset
getItem(ls, k) ==
  IF k \in DOMAIN ls THEN [present |-> TRUE, value |-> ls[k]]
  ELSE [present |-> FALSE, value |-> ""]

\* the truthiness test applied to getItem's result: null and '' are falsy
getItemTruthy(ls, k) == getItem(ls, k).present /\ getItem(ls, k).value # ""

setItem(ls, k, v) == [j \in DOMAIN ls \cup {k} |-> IF j = k THEN v ELSE ls[j]]

removeItem(ls, k) == [j \in DOMAIN ls \ {k} |-> ls[j]]

\* JSON.stringify of the cached profile; only the role is modelled
UserJSON(role) ==
  CASE role = DEV -> "{role:1}"
    [] role = ANALYST -> "{role:2}"
    [] role = ADMIN -> "{role:3}"

\* ------------------------------------------------------ request interceptor
\* the interceptor passing the stored language through as the header
RequestInterceptor_PassThrough(ls) ==
  LET auth == IF getItemTruthy(ls, "token")
              THEN [h \in {"Authorization"} |-> "Bearer " \o ls["token"]]
              ELSE [h \in {} |-> ""]
      currentLang == IF getItemTruthy(ls, "i18nextLng") THEN ls["i18nextLng"] ELSE "ru"
      lang == [h \in {"Accept-Language"} |-> currentLang]
  IN  auth @@ lang

\* the interceptor with `token !== null` in place of the truthiness test
RequestInterceptor_NullCheck(ls) ==
  LET auth == IF getItem(ls, "token").present
              THEN [h \in {"Authorization"} |-> "Bearer " \o ls["token"]]
              ELSE [h \in {} |-> ""]
      currentLang == IF getItemTruthy(ls, "i18nextLng") THEN ls["i18nextLng"] ELSE "ru"
      lang == [h \in {"Accept-Language"} |-> IF currentLang = "en" THEN "en" ELSE "ru"]
  IN  auth @@ lang

\* the interceptor sending the bare token, without the Bearer scheme
RequestInterceptor_Unprefixed(ls) ==
  LET auth == IF getItemTruthy(ls, "token")
              THEN [h \in {"Authorization"} |-> ls["token"]]
              ELSE [h \in {} |-> ""]
      currentLang == IF getItemTruthy(ls, "i18nextLng") THEN ls["i18nextLng"] ELSE "ru"
      lang == [h \in {"Accept-Language"} |-> IF currentLang = "en" THEN "en" ELSE "ru"]
  IN  auth @@ lang

\* config.headers after api.interceptors.request.use
RequestInterceptor(ls) ==
  LET auth == IF getItemTruthy(ls, "token")
              THEN [h \in {"Authorization"} |-> "Bearer " \o ls["token"]]
              ELSE [h \in {} |-> ""]
      currentLang == IF getItemTruthy(ls, "i18nextLng") THEN ls["i18nextLng"] ELSE "ru"
      lang == [h \in {"Accept-Language"} |-> IF currentLang = "en" THEN "en" ELSE "ru"]
  IN  auth @@ lang

\* ----------------------------------------------------- response interceptor
NoData == [access_token |-> "", role |-> NoUser, scans |-> <<>>, users |-> <<>>,
           cwes |-> <<>>]

\* the interceptor without removeItem('user')
ResponseInterceptor_KeepsUser(ls, target, response) ==
  IF response.status = OK
  THEN [ls |-> ls, target |-> target, assigned |-> FALSE,
        outcome |-> "fulfilled", value |-> response]
  ELSE IF response.status = Unauthorized
  THEN [ls |-> removeItem(ls, "token"),
        target |-> LoginPath, assigned |-> TRUE,
        outcome |-> "rejected", value |-> response]
  ELSE [ls |-> ls, target |-> target, assigned |-> FALSE,
        outcome |-> "rejected", value |-> response]

\* the interceptor without removeItem('token')
ResponseInterceptor_KeepsToken(ls, target, response) ==
  IF response.status = OK
  THEN [ls |-> ls, target |-> target, assigned |-> FALSE,
        outcome |-> "fulfilled", value |-> response]
  ELSE IF response.status = Unauthorized
  THEN [ls |-> removeItem(ls, "user"),
        target |-> LoginPath, assigned |-> TRUE,
        outcome |-> "rejected", value |-> response]
  ELSE [ls |-> ls, target |-> target, assigned |-> FALSE,
        outcome |-> "rejected", value |-> response]

\* the interceptor with `status >= 401` in place of `status === 401`
ResponseInterceptor_AnyErrorStatus(ls, target, response) ==
  IF response.status = OK
  THEN [ls |-> ls, target |-> target, assigned |-> FALSE,
        outcome |-> "fulfilled", value |-> response]
  ELSE IF response.status >= Unauthorized
  THEN [ls |-> removeItem(removeItem(ls, "token"), "user"),
        target |-> LoginPath, assigned |-> TRUE,
        outcome |-> "rejected", value |-> response]
  ELSE [ls |-> ls, target |-> target, assigned |-> FALSE,
        outcome |-> "rejected", value |-> response]

\* the interceptor taking a missing response for an authentication failure
ResponseInterceptor_ClearsOnNetworkError(ls, target, response) ==
  IF response.status = OK
  THEN [ls |-> ls, target |-> target, assigned |-> FALSE,
        outcome |-> "fulfilled", value |-> response]
  ELSE IF response.status \in {Unauthorized, NoResponse}
  THEN [ls |-> removeItem(removeItem(ls, "token"), "user"),
        target |-> LoginPath, assigned |-> TRUE,
        outcome |-> "rejected", value |-> response]
  ELSE [ls |-> ls, target |-> target, assigned |-> FALSE,
        outcome |-> "rejected", value |-> response]

\* What the interceptor does with a response: the store and the navigation
\* target after it, whether it assigned window.location.href, and the
\* settlement handed to the caller.
ResponseInterceptor(ls, target, response) ==
  IF response.status = OK
  THEN [ls |-> ls, target |-> target, assigned |-> FALSE,
        outcome |-> "fulfilled", value |-> response]
  ELSE IF response.status = Unauthorized
  THEN [ls |-> removeItem(removeItem(ls, "token"), "user"),
        target |-> LoginPath, assigned |-> TRUE,
        outcome |-> "rejected", value |-> response]
  ELSE [ls |-> ls, target |-> target, assigned |-> FALSE,
        outcome |-> "rejected", value |-> response]

\* ---------------------------------------------------------------- requests
NoLast == [api |-> "none", by |-> "none", status |-> NoResponse,
           outcome |-> "none", value |-> NoResponse, assigned |-> FALSE]

\* api.get / api.post: the request interceptor runs at dispatch; held and
\* heldLang record what the store held under 'token' and 'i18nextLng' at that
\* moment
Dispatch(reqs, ls, api, by, live) ==
  reqs (+) SetToBag({[api |-> api, by |-> by, live |-> live,
                      headers |-> RequestInterceptor(ls),
                      held |-> getItem(ls, "token"),
                      heldLang |-> getItem(ls, "i18nextLng")]})

Drop(reqs, r) == reqs (-) SetToBag({r})

CanDispatch == BagCardinality(inflight) < MaxInFlight

\* a page that unmounts leaves its requests in flight; their continuations no
\* longer reach the page's state
Orphaned(reqs) ==
  LET orphans == {[r EXCEPT !.live = FALSE] : r \in BagToSet(reqs)}
  IN  [o \in orphans |-> CopiesIn(o, reqs) + CopiesIn([o EXCEPT !.live = TRUE], reqs)]

\* the response handled and the settlement its caller observes: status is the
\* status that arrived, value the status of the response or error the caller
\* is handed
Settled(r, response, res) ==
  [api |-> r.api, by |-> r.by, status |-> response.status,
   outcome |-> res.outcome, value |-> res.value.status, assigned |-> res.assigned]

\* ----------------------------------------------------------------- backend
Authenticated(r) ==
  /\ "Authorization" \in DOMAIN r.headers
  /\ \E t \in valid : r.headers["Authorization"] = "Bearer " \o t

Failures == {[status |-> ServerError, data |-> NoData],
             [status |-> NoResponse, data |-> NoData]}

\* responses the backend can give to an authenticated endpoint
ProtectedResponses(r, payloads) ==
  IF Authenticated(r)
  THEN {[status |-> OK, data |-> d] : d \in payloads} \cup Failures
  ELSE {[status |-> Unauthorized, data |-> NoData]} \cup Failures

\* responses the backend can give to POST /auth/login: a fresh token when the
\* credentials in the body are good, 401 when they are not
LoginResponses ==
  {[status |-> OK, data |-> [NoData EXCEPT !.access_token = Token(i)]] :
     i \in {issued + 1} \cap (1..MaxTokens)}
  \cup {[status |-> Unauthorized, data |-> NoData]} \cup Failures

\* the role of the account a token was issued to: the first token is an
\* administrator's, the following ones a developer's, an analyst's, and so on
Owner(t) ==
  LET i == CHOOSE j \in 1..MaxTokens : Token(j) = t
  IN  CASE i % 3 = 1 -> ADMIN
        [] i % 3 = 2 -> DEV
        [] OTHER -> ANALYST

\* the profile GET /users/me returns: that of the owner of the request's token
Profiles(r) ==
  {[NoData EXCEPT !.role = Owner(t)] :
     t \in {v \in valid : "Authorization" \in DOMAIN r.headers
                          /\ r.headers["Authorization"] = "Bearer " \o v}}

ScanLists == {<<>>, <<COMPLETED>>}

\* the backend stops accepting a token; tokens have one lifetime, so they
\* expire in the order they were issued
Expire(t) ==
  /\ t \in valid
  /\ \A i, j \in 1..MaxTokens : t = Token(j) /\ i < j => Token(i) \notin valid
  /\ valid' = valid \ {t}
  /\ last' = NoLast
  /\ UNCHANGED <<localStorage, href, pendingHref, user, isLoading, inflight,
                 loginPage, scansPage, issued, detailsPage, dashboardPage, backend, usersPage, cwePage>>

\* ------------------------------------------------------------- route guard
\* the route table with analysts let into /users
AllowedRoles_UsersOpen(path) == IF path = "/users" THEN {ADMIN, ANALYST} ELSE {}

\* the allowedRoles prop of the ProtectedRoute around each route's page
AllowedRoles(path) == IF path = "/users" THEN {ADMIN} ELSE {}

\* the guard testing the user before the loading flag
ProtectedRoute_UserFirst(allowedRoles, u, loading) ==
  IF u = NoUser THEN LoginPath
  ELSE IF loading THEN "loading"
  ELSE IF allowedRoles # {} /\ u \notin allowedRoles THEN DefaultPath
  ELSE "children"

ProtectedRoute(allowedRoles, u, loading) ==
  IF loading THEN "loading"
  ELSE IF u = NoUser THEN LoginPath
  ELSE IF allowedRoles # {} /\ u \notin allowedRoles THEN DefaultPath
  ELSE "children"

\* what the router renders at a location
View(path, u, loading) ==
  IF path = LoginPath THEN "LoginPage"
  ELSE ProtectedRoute(AllowedRoles(path), u, loading)

\* the navbar with the user-management link shown to every user
Navbar_AnyUser(u) ==
  {DefaultPath, "/scans", "/cwe"} \cup (IF u # NoUser THEN {"/users"} ELSE {})

\* the links the Navbar shows: the user-management link is rendered when
\* user?.role === UserRole.ADMIN
Navbar(u) ==
  {DefaultPath, "/scans", "/cwe"}
    \cup (IF u # NoUser /\ u = ADMIN THEN {"/users"} ELSE {})

NewLoginPage == [error |-> FALSE, loading |-> FALSE]
NewScansPage == [mounted |-> FALSE, scans |-> <<>>, loading |-> TRUE, creating |-> FALSE]

\* an optional field of a response: present with a value, or left out
NoVulnerabilities == [present |-> FALSE, value |-> <<>>]
NoAmount == [present |-> FALSE, value |-> 0]
\* useState<Scan | null>(null)
NoScan == [id |-> 0, status |-> 0, vulnerabilities |-> NoVulnerabilities,
           vulnerabilities_amount |-> NoAmount]
NewScanDetailsPage == [id |-> 0, scan |-> NoScan, vulnerabilities |-> <<>>, loading |-> TRUE]
NewDashboardPage == [mounted |-> FALSE, scans |-> <<>>, loading |-> TRUE]
NewUsersPage == [mounted |-> FALSE, users |-> <<>>, loading |-> TRUE, creating |-> FALSE]
NewCWEPage == [mounted |-> FALSE, cwes |-> <<>>, loading |-> TRUE]
\* a backend that stores no scan
NoScans == [status |-> <<>>, shape |-> "both"]

\* ----------------------------------------------------------------- page load
\* The session once the provider has mounted: its effect has run, dispatching
\* the restore fetch when a token is stored.
AuthProvider(ls) ==
  IF getItemTruthy(ls, "token")
  THEN [user |-> NoUser, isLoading |-> TRUE,
        inflight |-> Dispatch(EmptyBag, ls, "/users/me", "restore", TRUE)]
  ELSE [user |-> NoUser, isLoading |-> FALSE, inflight |-> EmptyBag]

\* what a page load can find in localStorage: nothing, an empty token, or the
\* token of an earlier session
InitialStores ==
  {<<>>, [k \in {"token"} |-> ""], [k \in {"token"} |-> Token(1)]}

Init ==
  /\ localStorage \in InitialStores
  /\ href = LoginPath
  /\ pendingHref = "none"
  /\ user = AuthProvider(localStorage).user
  /\ isLoading = AuthProvider(localStorage).isLoading
  /\ inflight = AuthProvider(localStorage).inflight
  /\ last = NoLast
  /\ loginPage = NewLoginPage
  /\ scansPage = NewScansPage
  /\ detailsPage = NewScanDetailsPage
  /\ dashboardPage = NewDashboardPage
  /\ usersPage = NewUsersPage
  /\ cwePage = NewCWEPage
  /\ issued = 1
  /\ valid = {t \in {Token(1)} : getItemTruthy(localStorage, "token")}
  /\ backend = NoScans

\* the browser loads the app at a location: requests in flight are abandoned
\* and component state is rebuilt; localStorage persists
PageLoad(path) ==
  /\ localStorage' = localStorage
  /\ href' = path
  /\ pendingHref' = "none"
  /\ user' = AuthProvider(localStorage).user
  /\ isLoading' = AuthProvider(localStorage).isLoading
  /\ inflight' = AuthProvider(localStorage).inflight
  /\ last' = NoLast
  /\ loginPage' = NewLoginPage
  /\ scansPage' = NewScansPage
  /\ detailsPage' = NewScanDetailsPage
  /\ dashboardPage' = NewDashboardPage
  /\ usersPage' = NewUsersPage
  /\ cwePage' = NewCWEPage
  /\ UNCHANGED <<valid, issued, backend>>

\* the user reloads the page or types an address
Reload(path) ==
  /\ pendingHref = "none"
  /\ PageLoad(path)

\* the navigation started by an assignment to window.location.href completes
LocationChange ==
  /\ pendingHref # "none"
  /\ PageLoad(pendingHref)

\* --------------------------------------------------------------- navigation
\* react-router navigation inside the running app: a change of location
\* unmounts the page shown and mounts a fresh one
Navigate(path, reqs) ==
  /\ href' = path
  /\ IF path = href
     THEN /\ inflight' = reqs
          /\ UNCHANGED <<loginPage, scansPage, detailsPage, dashboardPage, usersPage, cwePage>>
     ELSE /\ inflight' = Orphaned(reqs)
          /\ loginPage' = NewLoginPage
          /\ scansPage' = NewScansPage
          /\ detailsPage' = NewScanDetailsPage
          /\ dashboardPage' = NewDashboardPage
          /\ usersPage' = NewUsersPage
          /\ cwePage' = NewCWEPage

\* navbar buttons, row links and the browser's history buttons
UserNavigate(path) ==
  /\ path # href
  /\ Navigate(path, inflight)
  /\ last' = NoLast
  /\ UNCHANGED <<localStorage, pendingHref, user, isLoading, valid, issued, backend, usersPage, cwePage>>

\* <Navigate to=... replace /> rendered by the guard
GuardRedirect ==
  /\ View(href, user, isLoading) \in {LoginPath, DefaultPath}
  /\ Navigate(View(href, user, isLoading), inflight)
  /\ last' = NoLast
  /\ UNCHANGED <<localStorage, pendingHref, user, isLoading, valid, issued, backend, usersPage, cwePage>>

\* AuthContext.logout
logout(ls) == [ls |-> removeItem(removeItem(ls, "token"), "user"), user |-> NoUser]

\* handleLogout without its navigate('/login')
handleLogout_StaysOnPage ==
  /\ View(href, user, isLoading) = "children"
  /\ localStorage' = logout(localStorage).ls
  /\ user' = logout(localStorage).user
  /\ Navigate(href, inflight)
  /\ last' = NoLast
  /\ UNCHANGED <<pendingHref, isLoading, valid, issued, backend, usersPage, cwePage>>

\* Navbar.handleLogout: logout() then navigate('/login')
handleLogout ==
  /\ View(href, user, isLoading) = "children"
  /\ localStorage' = logout(localStorage).ls
  /\ user' = logout(localStorage).user
  /\ Navigate(LoginPath, inflight)
  /\ last' = NoLast
  /\ UNCHANGED <<pendingHref, isLoading, valid, issued, backend, usersPage, cwePage>>

\* LanguageSwitcher.changeLanguage: the language detector caches the choice
changeLanguage(lang) ==
  /\ View(href, user, isLoading) \in {"children", "LoginPage"}
  /\ localStorage' = setItem(localStorage, "i18nextLng", lang)
  /\ last' = NoLast
  /\ UNCHANGED <<href, pendingHref, user, isLoading, inflight,
                 loginPage, scansPage, valid, issued, detailsPage, dashboardPage, backend, usersPage, cwePage>>

\* ------------------------------------------------------------------- login
\* LoginPage.handleSubmit up to its await: the form's fields are required and
\* the button is disabled while a submission is pending
handleSubmit ==
  /\ View(href, user, isLoading) = "LoginPage"
  /\ ~loginPage.loading
  /\ CanDispatch
  /\ loginPage' = [error |-> FALSE, loading |-> TRUE]
  /\ inflight' = Dispatch(inflight, localStorage, "/auth/login", "login", TRUE)
  /\ last' = NoLast
  /\ UNCHANGED <<localStorage, href, pendingHref, user, isLoading, scansPage,
                 valid, issued, detailsPage, dashboardPage, backend, usersPage, cwePage>>

\* the catch and finally blocks of LoginPage.handleSubmit
LoginFailed(r) == IF r.live THEN [error |-> TRUE, loading |-> FALSE] ELSE loginPage

\* AuthContext.login after the token request is fulfilled: store the token
LoginTokenStored(ls, data) == setItem(ls, "token", data.access_token)

\* AuthContext.login after the profile request is fulfilled: cache the profile
LoginProfileCached(ls, data) ==
  [ls |-> setItem(ls, "user", UserJSON(data.role)), user |-> data.role]

\* the response to POST /auth/login is handled: the interceptor, then login's
\* continuation, which stores the token and requests the profile
LoginResponse(r, response) ==
  /\ r.api = "/auth/login"
  /\ LET res == ResponseInterceptor(localStorage, pendingHref, response)
     IN  /\ pendingHref' = res.target
         /\ last' = Settled(r, response, res)
         /\ IF res.outcome = "fulfilled"
            THEN /\ issued' = issued + 1
                 /\ valid' = valid \cup {response.data.access_token}
                 /\ localStorage' = LoginTokenStored(res.ls, res.value.data)
                 /\ inflight' = Dispatch(Drop(inflight, r),
                                         LoginTokenStored(res.ls, res.value.data),
                                         "/users/me", "login", r.live)
                 /\ UNCHANGED loginPage
            ELSE /\ localStorage' = res.ls
                 /\ inflight' = Drop(inflight, r)
                 /\ loginPage' = LoginFailed(r)
                 /\ UNCHANGED <<valid, issued>>
         /\ UNCHANGED <<href, user, isLoading, scansPage, detailsPage, dashboardPage, backend, usersPage, cwePage>>

\* the response to the GET /users/me that login issued is handled: the
\* interceptor, the rest of login, then the rest of LoginPage.handleSubmit
LoginProfileResponse(r, response) ==
  /\ r.api = "/users/me"
  /\ r.by = "login"
  /\ LET res == ResponseInterceptor(localStorage, pendingHref, response)
     IN  /\ pendingHref' = res.target
         /\ last' = Settled(r, response, res)
         /\ IF res.outcome = "fulfilled"
            THEN /\ localStorage' = LoginProfileCached(res.ls, res.value.data).ls
                 /\ user' = LoginProfileCached(res.ls, res.value.data).user
                 /\ Navigate(DefaultPath, Drop(inflight, r))
            ELSE /\ localStorage' = res.ls
                 /\ inflight' = Drop(inflight, r)
                 /\ loginPage' = LoginFailed(r)
                 /\ UNCHANGED <<href, user, scansPage, detailsPage, dashboardPage>>
         /\ UNCHANGED <<isLoading, valid, issued, backend, usersPage, cwePage>>

\* the provider resolving isLoading only when the restore fetch succeeds
RestoreResponse_LoadingStuck(r, response) ==
  /\ r.by = "restore"
  /\ LET res == ResponseInterceptor(localStorage, pendingHref, response)
     IN  /\ pendingHref' = res.target
         /\ last' = Settled(r, response, res)
         /\ localStorage' = res.ls
         /\ inflight' = Drop(inflight, r)
         /\ user' = IF res.outcome = "fulfilled" THEN res.value.data.role ELSE NoUser
         /\ isLoading' = IF res.outcome = "fulfilled" THEN FALSE ELSE isLoading
         /\ UNCHANGED <<href, loginPage, scansPage, valid, issued, detailsPage, dashboardPage, backend, usersPage, cwePage>>

\* the response to the GET /users/me that the provider issued at page load is
\* handled
RestoreResponse(r, response) ==
  /\ r.by = "restore"
  /\ LET res == ResponseInterceptor(localStorage, pendingHref, response)
     IN  /\ pendingHref' = res.target
         /\ last' = Settled(r, response, res)
         /\ localStorage' = res.ls
         /\ inflight' = Drop(inflight, r)
         /\ user' = IF res.outcome = "fulfilled" THEN res.value.data.role ELSE NoUser
         /\ isLoading' = FALSE
         /\ UNCHANGED <<href, loginPage, scansPage, valid, issued, detailsPage, dashboardPage, backend, usersPage, cwePage>>

\* -------------------------------------------------------------- scan list
\* ScansPage mounts: its effect calls loadScans
ScansPageMount ==
  /\ href = "/scans"
  /\ View(href, user, isLoading) = "children"
  /\ ~scansPage.mounted
  /\ CanDispatch
  /\ scansPage' = [NewScansPage EXCEPT !.mounted = TRUE]
  /\ inflight' = Dispatch(inflight, localStorage, "/scans/", "loadScans", TRUE)
  /\ last' = NoLast
  /\ UNCHANGED <<localStorage, href, pendingHref, user, isLoading, loginPage,
                 valid, issued, detailsPage, dashboardPage, backend, usersPage, cwePage>>

\* ScansPage.handleDeleteScan on a row, confirmed: calls loadScans
handleDeleteScan ==
  /\ href = "/scans"
  /\ scansPage.mounted
  /\ scansPage.scans # <<>>
  /\ CanDispatch
  /\ inflight' = Dispatch(inflight, localStorage, "/scans/", "loadScans", TRUE)
  /\ last' = NoLast
  /\ UNCHANGED <<localStorage, href, pendingHref, user, isLoading, loginPage,
                 scansPage, valid, issued, detailsPage, dashboardPage, backend, usersPage, cwePage>>

\* loadScans calling itself again from its catch block
LoadScansResponse_Retries(r, response) ==
  /\ r.by = "loadScans"
  /\ LET res == ResponseInterceptor(localStorage, pendingHref, response)
     IN  /\ pendingHref' = res.target
         /\ last' = Settled(r, response, res)
         /\ localStorage' = res.ls
         /\ inflight' = IF res.outcome = "rejected" /\ response.status # Unauthorized
                        THEN Dispatch(Drop(inflight, r), res.ls, "/scans/", "loadScans", r.live)
                        ELSE Drop(inflight, r)
         /\ scansPage' =
              IF ~r.live THEN scansPage
              ELSE IF res.outcome = "fulfilled"
              THEN [scansPage EXCEPT !.scans = res.value.data.scans, !.loading = FALSE]
              ELSE [scansPage EXCEPT !.loading = FALSE]
         /\ UNCHANGED <<href, user, isLoading, loginPage, valid, issued, detailsPage, dashboardPage, backend, usersPage, cwePage>>

\* the response to a GET /scans/ issued by loadScans is handled
LoadScansResponse(r, response) ==
  /\ r.by = "loadScans"
  /\ LET res == ResponseInterceptor(localStorage, pendingHref, response)
     IN  /\ pendingHref' = res.target
         /\ last' = Settled(r, response, res)
         /\ localStorage' = res.ls
         /\ inflight' = Drop(inflight, r)
         /\ scansPage' =
              IF ~r.live THEN scansPage
              ELSE IF res.outcome = "fulfilled"
              THEN [scansPage EXCEPT !.scans = res.value.data.scans, !.loading = FALSE]
              ELSE [scansPage EXCEPT !.loading = FALSE]
         /\ UNCHANGED <<href, user, isLoading, loginPage, valid, issued, detailsPage, dashboardPage, backend, usersPage, cwePage>>

\* ------------------------------------------------------------ specification
\* The language preference only decides the Accept-Language header, so the
\* session specification leaves it as the page load found it.
Next ==
  \/ \E p \in Paths : Reload(p)
  \/ LocationChange
  \/ \E p \in Paths : UserNavigate(p)
  \/ GuardRedirect
  \/ handleLogout
  \/ handleSubmit
  \/ \E r \in BagToSet(inflight) : \E response \in LoginResponses :
        LoginResponse(r, response)
  \/ \E r \in BagToSet(inflight) : \E response \in ProtectedResponses(r, Profiles(r)) :
        LoginProfileResponse(r, response)
  \/ \E r \in BagToSet(inflight) : \E response \in ProtectedResponses(r, Profiles(r)) :
        RestoreResponse(r, response)
  \/ ScansPageMount
  \/ handleDeleteScan
  \/ \E r \in BagToSet(inflight) :
        \E response \in ProtectedResponses(r, {[NoData EXCEPT !.scans = l] : l \in ScanLists}) :
        LoadScansResponse(r, response)
  \/ \E t \in Tokens : Expire(t)

Spec == Init /\ [][Next]_vars

\* the restore fetch settles: axios fulfils or rejects every request it sent
RestoreSettles ==
  \E r \in BagToSet(inflight) : \E response \in ProtectedResponses(r, Profiles(r)) :
    RestoreResponse(r, response)

\* the session with every restore fetch eventually answered or failed
LiveSpec == Spec /\ WF_vars(RestoreSettles)

\* ------------------------------------------------- language specification
\* what the language detector may have cached under 'i18nextLng' before the
\* page load: the browser's language tag, or a value written by hand
StoredLanguages == {"en", "ru", "en-US", "EN", ""}

LanguageStores ==
  {s \in InitialStores : s = <<>> \/ getItemTruthy(s, "token")}
    \cup {setItem(s, "i18nextLng", l) :
            s \in {s \in InitialStores : s = <<>> \/ getItemTruthy(s, "token")},
            l \in StoredLanguages}

LanguageInit ==
  /\ localStorage \in LanguageStores
  /\ href = LoginPath
  /\ pendingHref = "none"
  /\ user = AuthProvider(localStorage).user
  /\ isLoading = AuthProvider(localStorage).isLoading
  /\ inflight = AuthProvider(localStorage).inflight
  /\ last = NoLast
  /\ loginPage = NewLoginPage
  /\ scansPage = NewScansPage
  /\ detailsPage = NewScanDetailsPage
  /\ dashboardPage = NewDashboardPage
  /\ usersPage = NewUsersPage
  /\ cwePage = NewCWEPage
  /\ issued = 1
  /\ valid = {t \in {Token(1)} : getItemTruthy(localStorage, "token")}
  /\ backend = NoScans

\* the login page and the scan list with the language menu in use
LanguageNext ==
  \/ \E lang \in {"ru", "en"} : changeLanguage(lang)
  \/ handleSubmit
  \/ \E r \in BagToSet(inflight) : \E response \in LoginResponses :
        LoginResponse(r, response)
  \/ \E r \in BagToSet(inflight) : \E response \in ProtectedResponses(r, Profiles(r)) :
        LoginProfileResponse(r, response)
  \/ \E r \in BagToSet(inflight) : \E response \in ProtectedResponses(r, Profiles(r)) :
        RestoreResponse(r, response)
  \/ UserNavigate("/scans")
  \/ ScansPageMount
  \/ \E r \in BagToSet(inflight) :
        \E response \in ProtectedResponses(r, {[NoData EXCEPT !.scans = l] : l \in ScanLists}) :
        LoadScansResponse(r, response)

LanguageSpec == LanguageInit /\ [][LanguageNext]_vars

\* ------------------------------------------------------------ scan details
MaxScanId == 2   \* scan ids the details view visits

ScanIds == 1..MaxScanId

LOW == 1
MEDIUM == 2
HIGH == 3
CRITICAL == 4
VulnerabilitySeverity == {LOW, MEDIUM, HIGH, CRITICAL}

\* a status value the client's ScanStatus does not list
UnknownStatus == 5

\* the colors with HIGH given the cautionary treatment
SeverityColors_HighAsWarning ==
  [s \in VulnerabilitySeverity |->
     CASE s = CRITICAL -> "error"
       [] s = HIGH -> "warning"
       [] s = MEDIUM -> "warning"
       [] s = LOW -> "info"]

SeverityColors ==
  [s \in VulnerabilitySeverity |->
     CASE s = CRITICAL -> "error"
       [] s = HIGH -> "error"
       [] s = MEDIUM -> "warning"
       [] s = LOW -> "info"]

\* the list's mapping without its FAILED case
getStatusColor_NoFailed(status) ==
  CASE status = COMPLETED -> "success"
    [] status = RUNNING -> "warning"
    [] OTHER -> "default"

\* ScansPage.getStatusColor
getStatusColor(status) ==
  CASE status = COMPLETED -> "success"
    [] status = RUNNING -> "warning"
    [] status = FAILED -> "error"
    [] OTHER -> "default"

\* ScanDetailsPage.getStatusColor
ScanDetails_getStatusColor(status) ==
  CASE status = COMPLETED -> "success"
    [] status = RUNNING -> "warning"
    [] status = FAILED -> "error"
    [] OTHER -> "default"

isTerminal(status) == status \in {COMPLETED, FAILED}

\* the vulnerabilities the backend stores for a completed scan
VulnerabilitiesOf(i) ==
  [j \in 1..(i + 1) |-> [id |-> 10 * i + j, scan_id |-> i, severity |-> ((i + j) % 4) + 1]]

ScanPath(id) == "/scans/" \o ToString(id)

\* what GET /scans/:id can return for scan id: any status, and for a completed
\* scan its vulnerabilities, or the field left out
ScanPayloads(id) ==
  {[id |-> id, status |-> s, vulnerabilities |-> NoVulnerabilities,
    vulnerabilities_amount |-> NoAmount] : s \in ScanStatus \cup {UnknownStatus}}
  \cup {[id |-> id, status |-> COMPLETED,
         vulnerabilities |-> [present |-> TRUE, value |-> VulnerabilitiesOf(id)],
         vulnerabilities_amount |-> NoAmount]}

\* the status values a response can carry, and the status of no scan
StatusInputs == ScanStatus \cup {UnknownStatus, NoScan.status}

\* ScanDetailsPage just mounted at /scans/:id: fresh state, and its effect has
\* called loadData
ScanDetailsMounted(id, reqs, ls) ==
  [page |-> [NewScanDetailsPage EXCEPT !.id = id],
   inflight |-> Dispatch(reqs, ls, ScanPath(id), "loadData", TRUE)]

DetailsInit ==
  /\ localStorage = setItem([k \in {"token"} |-> Token(1)], "user", UserJSON(Owner(Token(1))))
  /\ href = "/scans/:id"
  /\ pendingHref = "none"
  /\ user = Owner(Token(1))
  /\ isLoading = FALSE
  /\ \E id \in ScanIds :
       /\ detailsPage = ScanDetailsMounted(id, EmptyBag, localStorage).page
       /\ inflight = ScanDetailsMounted(id, EmptyBag, localStorage).inflight
  /\ last = NoLast
  /\ loginPage = NewLoginPage
  /\ scansPage = NewScansPage
  /\ dashboardPage = NewDashboardPage
  /\ usersPage = NewUsersPage
  /\ cwePage = NewCWEPage
  /\ issued = 1
  /\ valid = {Token(1)}
  /\ backend = NoScans

\* the user goes back to the list and views a scan: the page unmounts and a new
\* instance mounts
ViewScan(id) ==
  /\ detailsPage.id # 0
  /\ CanDispatch
  /\ detailsPage' = ScanDetailsMounted(id, Orphaned(inflight), localStorage).page
  /\ inflight' = ScanDetailsMounted(id, Orphaned(inflight), localStorage).inflight
  /\ last' = NoLast
  /\ UNCHANGED <<localStorage, href, pendingHref, user, isLoading, loginPage,
                 scansPage, dashboardPage, valid, issued, backend, usersPage, cwePage>>

\* the :id of the route changes under the mounted page (history navigation
\* between two scans): state is kept and the effect calls loadData for the new id
ScanIdChange(id) ==
  /\ detailsPage.id # 0
  /\ id # detailsPage.id
  /\ CanDispatch
  /\ detailsPage' = [detailsPage EXCEPT !.id = id]
  /\ inflight' = Dispatch(inflight, localStorage, ScanPath(id), "loadData", TRUE)
  /\ last' = NoLast
  /\ UNCHANGED <<localStorage, href, pendingHref, user, isLoading, loginPage,
                 scansPage, dashboardPage, valid, issued, backend, usersPage, cwePage>>

\* loadData without its setVulnerabilities
LoadDataCommitted_ScanOnly(page, res) ==
  IF res.outcome = "fulfilled"
  THEN [page EXCEPT !.scan = res.value.data, !.loading = FALSE]
  ELSE [page EXCEPT !.loading = FALSE]

\* loadData after its await: what it commits to the page
LoadDataCommitted(page, res) ==
  IF res.outcome = "fulfilled"
  THEN [page EXCEPT
          !.scan = res.value.data,
          !.vulnerabilities =
             IF res.value.data.status = COMPLETED
             THEN IF res.value.data.vulnerabilities.present
                  THEN res.value.data.vulnerabilities.value
                  ELSE <<>>
             ELSE @,
          !.loading = FALSE]
  ELSE [page EXCEPT !.loading = FALSE]

\* the response to a GET /scans/:id issued by loadData is handled; last also
\* records the page as it was before
LoadDataResponse(r, response) ==
  /\ r.by = "loadData"
  /\ LET res == ResponseInterceptor(localStorage, pendingHref, response)
     IN  /\ pendingHref' = res.target
         /\ last' = Settled(r, response, res) @@ [before |-> detailsPage, live |-> r.live]
         /\ localStorage' = res.ls
         /\ inflight' = Drop(inflight, r)
         /\ detailsPage' = IF r.live THEN LoadDataCommitted(detailsPage, res) ELSE detailsPage
         /\ UNCHANGED <<href, user, isLoading, loginPage, scansPage, dashboardPage,
                        valid, issued, backend, usersPage, cwePage>>

DetailsNext ==
  \/ \E id \in ScanIds : ViewScan(id)
  \/ \E id \in ScanIds : ScanIdChange(id)
  \/ \E r \in BagToSet(inflight) : \E id \in ScanIds :
       \E response \in ProtectedResponses(r, ScanPayloads(id)) :
         r.api = ScanPath(id) /\ LoadDataResponse(r, response)

DetailsSpec == DetailsInit /\ [][DetailsNext]_vars

\* ---------------------------------------------------- scan list, dashboard
MaxListed == 1   \* scans the backend comes to store

\* the optional fields a scan of GET /scans/ carries: the vulnerabilities array
\* and the summary count, one of them, or neither
Shapes == {"both", "array", "amount", "neither"}

\* scan i as GET /scans/ returns it
ListedScan(i, status, shape) ==
  LET found == IF status = COMPLETED THEN VulnerabilitiesOf(i) ELSE <<>>
  IN  [id |-> i, status |-> status,
       vulnerabilities |-> IF shape \in {"both", "array"}
                           THEN [present |-> TRUE, value |-> found]
                           ELSE NoVulnerabilities,
       vulnerabilities_amount |-> IF shape \in {"both", "amount"}
                                  THEN [present |-> TRUE, value |-> Len(found)]
                                  ELSE NoAmount]

ListOf(b) == [i \in DOMAIN b.status |-> ListedScan(i, b.status[i], b.shape)]

\* vulnerabilityCount(scan): the array's length, else the summary count, else 0
vulnerabilityCount(scan) ==
  IF scan.vulnerabilities.present THEN Len(scan.vulnerabilities.value)
  ELSE IF scan.vulnerabilities_amount.present THEN scan.vulnerabilities_amount.value
  ELSE 0

\* the vulnerabilities column of the scan list: params.value.length, which
\* throws a TypeError when the row has no vulnerabilities field
VulnerabilitiesCell(scan) ==
  IF scan.vulnerabilities.present
  THEN [threw |-> FALSE, value |-> Len(scan.vulnerabilities.value)]
  ELSE [threw |-> TRUE, value |-> 0]

RECURSIVE totalVulnerabilities(_)
\* DashboardPage.totalVulnerabilities: scans.reduce over vulnerabilities_amount
totalVulnerabilities(scans) ==
  IF scans = <<>> THEN 0
  ELSE LET s == scans[Len(scans)]
           sum == totalVulnerabilities(SubSeq(scans, 1, Len(scans) - 1))
       IN  IF s.vulnerabilities_amount.present /\ s.vulnerabilities_amount.value # 0
           THEN sum + s.vulnerabilities_amount.value
           ELSE sum

ListInit ==
  /\ localStorage = setItem([k \in {"token"} |-> Token(1)], "user", UserJSON(Owner(Token(1))))
  /\ href \in {DefaultPath, "/scans"}
  /\ pendingHref = "none"
  /\ user = Owner(Token(1))
  /\ isLoading = FALSE
  /\ inflight = EmptyBag
  /\ last = NoLast
  /\ loginPage = NewLoginPage
  /\ scansPage = NewScansPage
  /\ detailsPage = NewScanDetailsPage
  /\ dashboardPage = NewDashboardPage
  /\ usersPage = NewUsersPage
  /\ cwePage = NewCWEPage
  /\ issued = 1
  /\ valid = {Token(1)}
  /\ backend \in {[status |-> st, shape |-> sh] :
                    st \in {<<>>} \cup {<<s>> : s \in ScanStatus}, sh \in Shapes}

\* a scan moves forward: PENDING -> RUNNING -> COMPLETED or FAILED
Advance(i, status) ==
  /\ i \in DOMAIN backend.status
  /\ \/ backend.status[i] = PENDING /\ status = RUNNING
     \/ backend.status[i] = RUNNING /\ status \in {COMPLETED, FAILED}
  /\ backend' = [backend EXCEPT !.status[i] = status]
  /\ last' = NoLast
  /\ UNCHANGED <<localStorage, href, pendingHref, user, isLoading, inflight, loginPage,
                 scansPage, detailsPage, dashboardPage, valid, issued, usersPage, cwePage>>

\* the backend handles a GET /scans/: the response it sends carries the scans
\* as they are now
ServeList(r) ==
  /\ r.api = "/scans/"
  /\ r.by \in {"loadScans", "dashboard"}
  /\ "served" \notin DOMAIN r
  /\ inflight' = Drop(inflight, r) (+) SetToBag({r @@ [served |-> ListOf(backend)]})
  /\ last' = NoLast
  /\ UNCHANGED <<localStorage, href, pendingHref, user, isLoading, loginPage,
                 scansPage, detailsPage, dashboardPage, valid, issued, backend, usersPage, cwePage>>

\* the responses a GET /scans/ can get: the list it was served, or a failure
ListResponses(r) ==
  ProtectedResponses(r, IF "served" \in DOMAIN r
                        THEN {[NoData EXCEPT !.scans = r.served]}
                        ELSE {})

\* ScansPage.handleCreateScan with a target url typed in: POST /scans/
handleCreateScan ==
  /\ href = "/scans"
  /\ scansPage.mounted
  /\ user \in {ANALYST, ADMIN}
  /\ ~scansPage.creating
  /\ Len(backend.status) < MaxListed
  /\ CanDispatch
  /\ scansPage' = [scansPage EXCEPT !.creating = TRUE]
  /\ inflight' = Dispatch(inflight, localStorage, "/scans/", "create", TRUE)
  /\ last' = NoLast
  /\ UNCHANGED <<localStorage, href, pendingHref, user, isLoading, loginPage,
                 detailsPage, dashboardPage, valid, issued, backend, usersPage, cwePage>>

\* the response to the POST /scans/ is handled: the backend has stored the new
\* scan, and handleCreateScan calls loadScans
CreateScanResponse(r, response) ==
  /\ r.by = "create"
  /\ LET res == ResponseInterceptor(localStorage, pendingHref, response)
     IN  /\ pendingHref' = res.target
         /\ last' = Settled(r, response, res)
         /\ localStorage' = res.ls
         /\ scansPage' = IF r.live THEN [scansPage EXCEPT !.creating = FALSE] ELSE scansPage
         /\ IF res.outcome = "fulfilled"
            THEN /\ backend' = [backend EXCEPT !.status = Append(@, PENDING)]
                 /\ inflight' = Dispatch(Drop(inflight, r), res.ls, "/scans/", "loadScans", r.live)
            ELSE /\ inflight' = Drop(inflight, r)
                 /\ UNCHANGED backend
         /\ UNCHANGED <<href, user, isLoading, loginPage, detailsPage, dashboardPage,
                        valid, issued, usersPage, cwePage>>

\* DashboardPage mounts: its effect calls loadScans
DashboardMount ==
  /\ href = DefaultPath
  /\ View(href, user, isLoading) = "children"
  /\ ~dashboardPage.mounted
  /\ CanDispatch
  /\ dashboardPage' = [NewDashboardPage EXCEPT !.mounted = TRUE]
  /\ inflight' = Dispatch(inflight, localStorage, "/scans/", "dashboard", TRUE)
  /\ last' = NoLast
  /\ UNCHANGED <<localStorage, href, pendingHref, user, isLoading, loginPage,
                 scansPage, detailsPage, valid, issued, backend, usersPage, cwePage>>

\* the response to the dashboard's GET /scans/ is handled
DashboardResponse(r, response) ==
  /\ r.by = "dashboard"
  /\ LET res == ResponseInterceptor(localStorage, pendingHref, response)
     IN  /\ pendingHref' = res.target
         /\ last' = Settled(r, response, res)
         /\ localStorage' = res.ls
         /\ inflight' = Drop(inflight, r)
         /\ dashboardPage' =
              IF ~r.live THEN dashboardPage
              ELSE IF res.outcome = "fulfilled"
              THEN [dashboardPage EXCEPT !.scans = res.value.data.scans, !.loading = FALSE]
              ELSE [dashboardPage EXCEPT !.loading = FALSE]
         /\ UNCHANGED <<href, user, isLoading, loginPage, scansPage, detailsPage,
                        valid, issued, backend, usersPage, cwePage>>

ListNext ==
  \/ ScansPageMount
  \/ handleDeleteScan
  \/ handleCreateScan
  \/ \E r \in BagToSet(inflight) : \E response \in ProtectedResponses(r, {NoData}) :
       CreateScanResponse(r, response)
  \/ \E r \in BagToSet(inflight) : ServeList(r)
  \/ \E r \in BagToSet(inflight) : \E response \in ListResponses(r) :
       LoadScansResponse(r, response)
  \/ DashboardMount
  \/ \E r \in BagToSet(inflight) : \E response \in ListResponses(r) :
       DashboardResponse(r, response)
  \/ \E i \in 1..MaxListed : \E status \in ScanStatus : Advance(i, status)

ListSpec == ListInit /\ [][ListNext]_vars

\* ------------------------------------------------- users, CWE, all pages
\* the lists GET /users/ returns: the roles of the accounts, the
\* administrator's own first
UserLists == {<<ADMIN>>, <<ADMIN, DEV>>}

\* the lists GET /cwe/ returns
CWELists == {<<>>, <<"CWE-79">>}

\* UsersPage mounts: its effect calls loadUsers
UsersPageMount ==
  /\ href = "/users"
  /\ View(href, user, isLoading) = "children"
  /\ ~usersPage.mounted
  /\ CanDispatch
  /\ usersPage' = [NewUsersPage EXCEPT !.mounted = TRUE]
  /\ inflight' = Dispatch(inflight, localStorage, "/users/", "loadUsers", TRUE)
  /\ last' = NoLast
  /\ UNCHANGED <<localStorage, href, pendingHref, user, isLoading, loginPage, scansPage,
                 detailsPage, dashboardPage, cwePage, valid, issued, backend>>

\* UsersPage.handleDeleteUser on a row, confirmed: calls loadUsers
handleDeleteUser ==
  /\ href = "/users"
  /\ usersPage.mounted
  /\ usersPage.users # <<>>
  /\ CanDispatch
  /\ inflight' = Dispatch(inflight, localStorage, "/users/", "loadUsers", TRUE)
  /\ last' = NoLast
  /\ UNCHANGED <<localStorage, href, pendingHref, user, isLoading, loginPage, scansPage,
                 detailsPage, dashboardPage, usersPage, cwePage, valid, issued, backend>>

\* UsersPage.handleCreateUser with the form filled in: POST /users/
handleCreateUser ==
  /\ href = "/users"
  /\ usersPage.mounted
  /\ ~usersPage.creating
  /\ CanDispatch
  /\ usersPage' = [usersPage EXCEPT !.creating = TRUE]
  /\ inflight' = Dispatch(inflight, localStorage, "/users/", "createUser", TRUE)
  /\ last' = NoLast
  /\ UNCHANGED <<localStorage, href, pendingHref, user, isLoading, loginPage, scansPage,
                 detailsPage, dashboardPage, cwePage, valid, issued, backend>>

\* the response to the POST /users/ is handled: on success handleCreateUser
\* calls loadUsers
CreateUserResponse(r, response) ==
  /\ r.by = "createUser"
  /\ LET res == ResponseInterceptor(localStorage, pendingHref, response)
     IN  /\ pendingHref' = res.target
         /\ last' = Settled(r, response, res)
         /\ localStorage' = res.ls
         /\ usersPage' = IF r.live THEN [usersPage EXCEPT !.creating = FALSE] ELSE usersPage
         /\ inflight' = IF res.outcome = "fulfilled"
                        THEN Dispatch(Drop(inflight, r), res.ls, "/users/", "loadUsers", r.live)
                        ELSE Drop(inflight, r)
         /\ UNCHANGED <<href, user, isLoading, loginPage, scansPage, detailsPage,
                        dashboardPage, cwePage, valid, issued, backend>>

\* loadUsers with setLoading(false) at the end of its try block
LoadUsersResponse_LoadingOnFailure(r, response) ==
  /\ r.by = "loadUsers"
  /\ LET res == ResponseInterceptor(localStorage, pendingHref, response)
     IN  /\ pendingHref' = res.target
         /\ last' = Settled(r, response, res)
         /\ localStorage' = res.ls
         /\ inflight' = Drop(inflight, r)
         /\ usersPage' =
              IF r.live /\ res.outcome = "fulfilled"
              THEN [usersPage EXCEPT !.users = res.value.data.users, !.loading = FALSE]
              ELSE usersPage
         /\ UNCHANGED <<href, user, isLoading, loginPage, scansPage, detailsPage,
                        dashboardPage, cwePage, valid, issued, backend>>

\* the response to a GET /users/ issued by loadUsers is handled
LoadUsersResponse(r, response) ==
  /\ r.by = "loadUsers"
  /\ LET res == ResponseInterceptor(localStorage, pendingHref, response)
     IN  /\ pendingHref' = res.target
         /\ last' = Settled(r, response, res)
         /\ localStorage' = res.ls
         /\ inflight' = Drop(inflight, r)
         /\ usersPage' =
              IF ~r.live THEN usersPage
              ELSE IF res.outcome = "fulfilled"
              THEN [usersPage EXCEPT !.users = res.value.data.users, !.loading = FALSE]
              ELSE [usersPage EXCEPT !.loading = FALSE]
         /\ UNCHANGED <<href, user, isLoading, loginPage, scansPage, detailsPage,
                        dashboardPage, cwePage, valid, issued, backend>>

\* CWEPage mounts: its effect calls loadCWEs
CWEPageMount ==
  /\ href = "/cwe"
  /\ View(href, user, isLoading) = "children"
  /\ ~cwePage.mounted
  /\ CanDispatch
  /\ cwePage' = [NewCWEPage EXCEPT !.mounted = TRUE]
  /\ inflight' = Dispatch(inflight, localStorage, "/cwe/", "loadCWEs", TRUE)
  /\ last' = NoLast
  /\ UNCHANGED <<localStorage, href, pendingHref, user, isLoading, loginPage, scansPage,
                 detailsPage, dashboardPage, usersPage, valid, issued, backend>>

\* the response to the GET /cwe/ issued by loadCWEs is handled
LoadCWEsResponse(r, response) ==
  /\ r.by = "loadCWEs"
  /\ LET res == ResponseInterceptor(localStorage, pendingHref, response)
     IN  /\ pendingHref' = res.target
         /\ last' = Settled(r, response, res)
         /\ localStorage' = res.ls
         /\ inflight' = Drop(inflight, r)
         /\ cwePage' =
              IF ~r.live THEN cwePage
              ELSE IF res.outcome = "fulfilled"
              THEN [cwePage EXCEPT !.cwes = res.value.data.cwes, !.loading = FALSE]
              ELSE [cwePage EXCEPT !.loading = FALSE]
         /\ UNCHANGED <<href, user, isLoading, loginPage, scansPage, detailsPage,
                        dashboardPage, usersPage, valid, issued, backend>>

\* the pages that fetch, each at its route
PagePaths == {DefaultPath, "/scans", "/cwe", "/users"}

\* an administrator's session on one of the pages that fetch: the page is about
\* to mount, or the scan details page has mounted
PagesInit ==
  /\ localStorage = setItem([k \in {"token"} |-> Token(1)], "user", UserJSON(Owner(Token(1))))
  /\ pendingHref = "none"
  /\ user = Owner(Token(1))
  /\ isLoading = FALSE
  /\ last = NoLast
  /\ loginPage = NewLoginPage
  /\ scansPage = NewScansPage
  /\ dashboardPage = NewDashboardPage
  /\ usersPage = NewUsersPage
  /\ cwePage = NewCWEPage
  /\ issued = 1
  /\ valid = {Token(1)}
  /\ backend = NoScans
  /\ \/ /\ href \in PagePaths
        /\ detailsPage = NewScanDetailsPage
        /\ inflight = EmptyBag
     \/ /\ href = "/scans/:id"
        /\ \E id \in ScanIds :
             /\ detailsPage = ScanDetailsMounted(id, EmptyBag, localStorage).page
             /\ inflight = ScanDetailsMounted(id, EmptyBag, localStorage).inflight

ScanListPayloads == {[NoData EXCEPT !.scans = l] : l \in ScanLists}

\* a page fetch in flight settles
LoadScansSettles ==
  \E r \in BagToSet(inflight) : \E response \in ProtectedResponses(r, ScanListPayloads) :
    LoadScansResponse(r, response)

DashboardSettles ==
  \E r \in BagToSet(inflight) : \E response \in ProtectedResponses(r, ScanListPayloads) :
    DashboardResponse(r, response)

\* a running scan, or a completed one with its vulnerabilities
LoadDataSettles ==
  \E r \in BagToSet(inflight) : \E id \in ScanIds :
    \E response \in ProtectedResponses(r, {p \in ScanPayloads(id) :
                                             \/ p.status = RUNNING
                                             \/ p.vulnerabilities.present}) :
      r.api = ScanPath(id) /\ LoadDataResponse(r, response)

LoadUsersSettles ==
  \E r \in BagToSet(inflight) :
    \E response \in ProtectedResponses(r, {[NoData EXCEPT !.users = l] : l \in UserLists}) :
      LoadUsersResponse(r, response)

LoadCWEsSettles ==
  \E r \in BagToSet(inflight) :
    \E response \in ProtectedResponses(r, {[NoData EXCEPT !.cwes = l] : l \in CWELists}) :
      LoadCWEsResponse(r, response)

PagesNext ==
  \/ \E p \in PagePaths : UserNavigate(p)
  \/ LocationChange
  \/ \E t \in Tokens : Expire(t)
  \/ ScansPageMount
  \/ handleDeleteScan
  \/ handleCreateScan
  \/ \E r \in BagToSet(inflight) : \E response \in ProtectedResponses(r, {NoData}) :
       CreateScanResponse(r, response)
  \/ LoadScansSettles
  \/ DashboardMount
  \/ DashboardSettles
  \/ \E id \in ScanIds : ScanIdChange(id)
  \/ LoadDataSettles
  \/ UsersPageMount
  \/ handleDeleteUser
  \/ handleCreateUser
  \/ \E r \in BagToSet(inflight) : \E response \in ProtectedResponses(r, {NoData}) :
       CreateUserResponse(r, response)
  \/ LoadUsersSettles
  \/ CWEPageMount
  \/ LoadCWEsSettles

PagesSpec == PagesInit /\ [][PagesNext]_vars

\* page fetches settle: while one is in flight, the promise of one of them is
\* eventually fulfilled or rejected
PageFetchSettles ==
  LoadScansSettles \/ DashboardSettles \/ LoadDataSettles \/ LoadUsersSettles \/ LoadCWEsSettles

PagesLiveSpec == PagesSpec /\ WF_vars(PageFetchSettles)

\* ------------------------------------------------------------------ claims
TokenIndex(t) == CHOOSE j \in 1..MaxTokens : Token(j) = t

\* C1: a request carries Authorization 'Bearer <token>' exactly when the store
\* held a non-empty token when it was sent, <token> being the stored value;
\* with no token or an empty one the header is absent, so an empty Bearer
\* value is never sent.
C1_BearerIffToken ==
  \A r \in BagToSet(inflight) :
    /\ IF r.held.present /\ r.held.value # ""
       THEN /\ "Authorization" \in DOMAIN r.headers
            /\ r.headers["Authorization"] = "Bearer " \o r.held.value
       ELSE "Authorization" \notin DOMAIN r.headers
    /\ "Authorization" \in DOMAIN r.headers => r.headers["Authorization"] # "Bearer "

\* a request sent while the store held '' is in flight next to one sent with a token
C1_Witness ==
  \E r1, r2 \in BagToSet(inflight) :
    /\ r1.held.present /\ r1.held.value = "" /\ "Authorization" \notin DOMAIN r1.headers
    /\ r2.held.present /\ r2.held.value # "" /\ "Authorization" \in DOMAIN r2.headers

\* C2: once a 401 response has been handled, the token and the cached user are
\* gone from the store, the navigation target is the login page, and the
\* caller was handed the rejection with the original error.
C2_UnauthorizedForcesLogout ==
  last.status = Unauthorized =>
    /\ ~getItem(localStorage, "token").present
    /\ ~getItem(localStorage, "user").present
    /\ pendingHref = LoginPath
    /\ last.assigned
    /\ last.outcome = "rejected"
    /\ last.value = Unauthorized

\* a GET /scans/ has just been answered 401
C2_Witness == last.by = "loadScans" /\ last.status = Unauthorized /\ last.outcome = "rejected"

\* C3: when several requests in flight are each answered 401, the store is
\* cleared and the navigation to the login page started once: handling a 401
\* after the navigation has been started assigns no second navigation, and
\* leaves the store without a token.
C3_ForcedLogoutOnce ==
  [][(pendingHref = LoginPath /\ last'.status = Unauthorized)
       => /\ ~last'.assigned
          /\ ~getItem(localStorage', "token").present]_vars

\* C4: a 401 answer to POST /auth/login is a plain login failure: the store and
\* the session user are as before, and no navigation to the login page is
\* started.
C4_LoginFailureIsPlain ==
  [][(last'.api = "/auth/login" /\ last'.status = Unauthorized)
       => /\ last'.outcome = "rejected"
          /\ localStorage' = localStorage
          /\ user' = user
          /\ pendingHref' = pendingHref
          /\ ~last'.assigned]_vars

\* C5: the token a fulfilled login stores is the one the backend has just
\* issued and accepts, never one it has rejected; the stored token changes
\* only by a write (login's setItem, the 401 interceptor's or logout's
\* removeItem) and then holds exactly what that write wrote.
C5_LastWriteWins ==
  [][CASE last'.api = "/auth/login" /\ last'.outcome = "fulfilled" ->
            /\ getItem(localStorage', "token") = [present |-> TRUE, value |-> Token(issued')]
            /\ Token(issued') \in valid'
            /\ issued' = issued + 1
       [] last'.status = Unauthorized /\ last'.outcome = "rejected" ->
            ~getItem(localStorage', "token").present
       [] last'.outcome = "none" /\ handleLogout ->
            ~getItem(localStorage', "token").present
       [] OTHER ->
            getItem(localStorage', "token") = getItem(localStorage, "token")]_vars

\* a login has just been fulfilled after a 401 of another request forced a logout
C5_Witness ==
  /\ last.api = "/auth/login"
  /\ last.outcome = "fulfilled"
  /\ pendingHref = LoginPath
  /\ getItemTruthy(localStorage, "token")

\* C6: an error response with a status other than 401, or no response at all,
\* leaves the store and the navigation target as they were and reaches the
\* caller as a rejection with the same error.
C6_OtherErrorsPassThrough ==
  [][(last'.outcome = "rejected" /\ last'.status # Unauthorized)
       => /\ localStorage' = localStorage
          /\ pendingHref' = pendingHref
          /\ href' = href
          /\ ~last'.assigned
          /\ last'.value = last'.status]_vars

\* a request failed with status 500 while a token and a cached user were stored
C6_Witness ==
  /\ last.outcome = "rejected"
  /\ last.status = ServerError
  /\ getItemTruthy(localStorage, "token")
  /\ getItem(localStorage, "user").present

\* C7: with isLoading false the guard renders the page exactly when a user is
\* present and the allow-list is empty or contains the user's role; without a
\* user it redirects to the login page, with a user outside the list to the
\* default view.  /users admits administrators only.
C7_GuardDecision ==
  /\ ~isLoading =>
       \A L \in SUBSET Roles :
         /\ ProtectedRoute(L, user, isLoading) = "children"
              <=> (user # NoUser /\ (L = {} \/ user \in L))
         /\ user = NoUser => ProtectedRoute(L, user, isLoading) = LoginPath
         /\ (user # NoUser /\ L # {} /\ user \notin L)
              => ProtectedRoute(L, user, isLoading) = DefaultPath
  /\ ~isLoading /\ View("/users", user, isLoading) = "children" => user = ADMIN
  /\ \A ro \in {DEV, ANALYST} : View("/users", ro, FALSE) = DefaultPath
  /\ ProtectedRoute(Roles \ {ADMIN}, ADMIN, FALSE) = DefaultPath

\* a developer is at /users and the guard redirects to the default view
C7_Witness ==
  /\ ~isLoading
  /\ user = DEV
  /\ href = "/users"
  /\ View(href, user, isLoading) = DefaultPath

\* C8: while isLoading is true every protected route renders the loading
\* placeholder, and the guard redirects nowhere.
C8_LoadingPlaceholder ==
  /\ [](isLoading => \A p \in ProtectedPaths : View(p, user, isLoading) = "loading")
  /\ [][GuardRedirect => ~isLoading]_vars

\* the page was loaded on a protected route with a token the backend accepts
\* and the restore fetch is pending
C8_Witness ==
  /\ isLoading
  /\ href \in ProtectedPaths
  /\ \E r \in BagToSet(inflight) : r.by = "restore" /\ Authenticated(r)

\* login's steps in order: once the token request is fulfilled the token is in
\* the store and the profile request in flight carries it
C9_Order ==
  (last.api = "/auth/login" /\ last.outcome = "fulfilled") =>
    /\ getItem(localStorage, "token") = [present |-> TRUE, value |-> Token(issued)]
    /\ \E r \in BagToSet(inflight) :
         /\ r.api = "/users/me"
         /\ r.by = "login"
         /\ "Authorization" \in DOMAIN r.headers
         /\ r.headers["Authorization"] = "Bearer " \o Token(issued)

LoginResolved == last.by = "login" /\ last.api = "/users/me" /\ last.outcome = "fulfilled"

\* C9 as stated: login stores the token before fetching the profile, and when
\* it resolves the user is present, isLoading is false and the store holds a
\* token.
C9_LoginPostcondition ==
  /\ C9_Order
  /\ LoginResolved =>
       /\ user # NoUser
       /\ ~isLoading
       /\ getItemTruthy(localStorage, "token")

\* C9 amended: login stores the token before fetching the profile; when it
\* resolves the user is present with the role the backend returned and the
\* profile is cached; isLoading is true only if the restore fetch is still
\* pending; the store holds the token login stored unless a later write (a
\* forced logout, a logout, a newer login) replaced it.
C9_LoginResolves ==
  /\ [](C9_Order)
  /\ [](LoginResolved =>
          /\ user \in Roles
          /\ getItem(localStorage, "user") = [present |-> TRUE, value |-> UserJSON(user)]
          /\ isLoading => \E r \in BagToSet(inflight) : r.by = "restore")
  /\ [][\A r \in BagToSet(inflight) :
          \A response \in ProtectedResponses(r, Profiles(r)) :
            (response.status = OK /\ LoginProfileResponse(r, response))
              => /\ user' = response.data.role
                 /\ \/ ~getItem(localStorage', "token").present
                    \/ /\ getItem(localStorage', "token").value \in Tokens
                       /\ TokenIndex(getItem(localStorage', "token").value)
                            >= TokenIndex(r.held.value)]_vars

\* login has resolved with its token still in the store
C9_Witness == LoginResolved /\ getItemTruthy(localStorage, "token") /\ ~isLoading

RestoreFailed == last.by = "restore" /\ last.outcome = "rejected"

\* C10 as stated: after a failed restore fetch the user is absent and the store
\* holds neither the token nor a cached user.
C10_FailedRestoreClearsAll ==
  RestoreFailed =>
    /\ user = NoUser
    /\ ~getItem(localStorage, "token").present
    /\ ~getItem(localStorage, "user").present

\* C10 amended: after a failed restore fetch the user is absent and isLoading
\* false; when the failure is a 401 the store holds neither the token nor a
\* cached user.
C10_FailedRestore ==
  RestoreFailed =>
    /\ user = NoUser
    /\ ~isLoading
    /\ last.status = Unauthorized =>
         /\ ~getItem(localStorage, "token").present
         /\ ~getItem(localStorage, "user").present

\* the restore fetch has just been answered 401
C10_Witness == RestoreFailed /\ last.status = Unauthorized

\* C11: isLoading is true only while the restore fetch issued at page load is
\* pending; it becomes true in no step other than a page load with a stored
\* token, so neither login nor logout sets it; and it eventually becomes false
\* on every path, whether the fetch succeeds or fails.
C11_LoadingResolves ==
  /\ [](isLoading <=> \E r \in BagToSet(inflight) : r.by = "restore")
  /\ [](~getItemTruthy(localStorage, "token") /\ last = NoLast /\ pendingHref = "none"
          /\ inflight = EmptyBag => ~isLoading)
  /\ [][isLoading' /\ ~isLoading
          => /\ getItemTruthy(localStorage, "token")
             /\ inflight' = AuthProvider(localStorage).inflight
             /\ user' = NoUser]_vars
  /\ [][handleLogout \/ handleSubmit \/ last'.by = "login"
          => isLoading' = isLoading]_vars
  /\ [](last.by = "restore" => ~isLoading)
  /\ (isLoading ~> ~isLoading)

\* the restore fetch has just failed and isLoading is false
C11_Witness ==
  /\ last.by = "restore"
  /\ last.outcome = "rejected"
  /\ last.status = ServerError
  /\ ~isLoading

\* C12: logout clears the token and the cached user at once, so that when it
\* returns the store has neither and the session user is absent; logout itself
\* navigates nowhere, and the navbar's handleLogout navigates to the login page
\* after logout has returned.
C12_LogoutThenNavigate ==
  [][handleLogout
       => LET returned == logout(localStorage)
          IN  /\ ~getItem(returned.ls, "token").present
              /\ ~getItem(returned.ls, "user").present
              /\ returned.user = NoUser
              /\ DOMAIN returned = {"ls", "user"}
              /\ localStorage' = returned.ls
              /\ user' = returned.user
              /\ href' = LoginPath
              /\ pendingHref' = pendingHref]_vars

\* handleLogout has run in a session that had a token, with a request of the
\* page it left still in flight
C12_Witness ==
  /\ href = LoginPath
  /\ user = NoUser
  /\ pendingHref = "none"
  /\ ~getItem(localStorage, "token").present
  /\ ~getItem(localStorage, "user").present
  /\ \E r \in BagToSet(inflight) : ~r.live /\ r.held.present /\ r.held.value # ""

\* C13: every request carries an Accept-Language header that is 'en' or 'ru':
\* 'en' when the store held 'en' under 'i18nextLng' when it was sent, and 'ru'
\* when it held nothing or anything else.
C13_AcceptLanguage ==
  \A r \in BagToSet(inflight) :
    /\ "Accept-Language" \in DOMAIN r.headers
    /\ r.headers["Accept-Language"] \in {"en", "ru"}
    /\ r.headers["Accept-Language"] = "en"
         <=> (r.heldLang.present /\ r.heldLang.value = "en")

\* a request sent with 'en' stored is in flight next to one sent with the
\* browser's tag 'en-US' stored
C13_Witness ==
  \E r1, r2 \in BagToSet(inflight) :
    /\ r1.heldLang = [present |-> TRUE, value |-> "en"]
    /\ r1.headers["Accept-Language"] = "en"
    /\ r2.heldLang = [present |-> TRUE, value |-> "en-US"]
    /\ r2.headers["Accept-Language"] = "ru"


\* C15: the status-to-color mapping is total: COMPLETED gives 'success',
\* RUNNING 'warning', FAILED 'error', PENDING 'default', and any other value
\* 'default'; the scan list's copy and the scan details' copy give the same
\* color for every input, the status displayed among them.
C15_StatusColor ==
  /\ \A s \in StatusInputs \cup {detailsPage.scan.status} :
       /\ getStatusColor(s) = ScanDetails_getStatusColor(s)
       /\ s = COMPLETED => getStatusColor(s) = "success"
       /\ s = RUNNING => getStatusColor(s) = "warning"
       /\ s = FAILED => getStatusColor(s) = "error"
       /\ s = PENDING => getStatusColor(s) = "default"
       /\ s \notin ScanStatus => getStatusColor(s) = "default"
       /\ getStatusColor(s) \in {"success", "warning", "error", "default"}

\* the details view displays a scan whose status the client does not know
C15_Witness ==
  /\ ~detailsPage.loading
  /\ detailsPage.scan.id = detailsPage.id
  /\ detailsPage.scan.status = UnknownStatus
  /\ ScanDetails_getStatusColor(detailsPage.scan.status) = "default"

\* a fetch has just replaced a displayed RUNNING scan by the same scan
\* COMPLETED, its vulnerabilities array in the response
Refetched ==
  /\ last.by = "loadData"
  /\ last.outcome = "fulfilled"
  /\ last.live
  /\ last.before.scan.status = RUNNING
  /\ last.before.scan.id = detailsPage.scan.id
  /\ detailsPage.scan.status = COMPLETED
  /\ detailsPage.scan.vulnerabilities.present

\* C16: when a re-fetch of a scan seen as RUNNING returns COMPLETED with an
\* array of k vulnerabilities, the details view's vulnerability count becomes
\* k and the scan is terminal; isTerminal holds of COMPLETED and FAILED and of
\* neither PENDING nor RUNNING.
C16_RefetchCompleted ==
  /\ Refetched =>
       /\ detailsPage.vulnerabilities = detailsPage.scan.vulnerabilities.value
       /\ Len(detailsPage.vulnerabilities) = Len(VulnerabilitiesOf(detailsPage.scan.id))
       /\ isTerminal(detailsPage.scan.status)
  /\ isTerminal(COMPLETED) /\ isTerminal(FAILED)
  /\ ~isTerminal(PENDING) /\ ~isTerminal(RUNNING)

\* scan 1, seen RUNNING, has just been re-fetched COMPLETED with its two
\* vulnerabilities while it is the selected scan
C16_Witness ==
  /\ Refetched
  /\ detailsPage.id = 1
  /\ detailsPage.scan.id = 1
  /\ Len(detailsPage.vulnerabilities) = 2

\* C17: each of the four severities has a color: CRITICAL and HIGH 'error',
\* MEDIUM 'warning', LOW 'info'; so has every vulnerability the details view
\* lists.
C17_SeverityColors ==
  /\ DOMAIN SeverityColors = VulnerabilitySeverity
  /\ SeverityColors[CRITICAL] = "error"
  /\ SeverityColors[HIGH] = "error"
  /\ SeverityColors[MEDIUM] = "warning"
  /\ SeverityColors[LOW] = "info"
  /\ \A j \in DOMAIN detailsPage.vulnerabilities :
       LET severity == detailsPage.vulnerabilities[j].severity
       IN  /\ severity \in DOMAIN SeverityColors
           /\ SeverityColors[severity] =
                IF severity \in {CRITICAL, HIGH} THEN "error"
                ELSE IF severity = MEDIUM THEN "warning" ELSE "info"

\* the details view lists vulnerabilities of severity CRITICAL, LOW and MEDIUM
C17_Witness ==
  /\ detailsPage.scan.status = COMPLETED
  /\ {detailsPage.vulnerabilities[j].severity : j \in DOMAIN detailsPage.vulnerabilities}
       = {CRITICAL, LOW, MEDIUM}

\* C18: a response to the fetch of a scan id that is no longer the selected one
\* is never committed: the displayed scan and vulnerabilities stay as they
\* were before it arrived.
C18_LastRequestedWins ==
  (/\ last.by = "loadData"
   /\ last.live
   /\ last.outcome = "fulfilled"
   /\ last.api # ScanPath(last.before.id))
  => /\ detailsPage.scan = last.before.scan
     /\ detailsPage.vulnerabilities = last.before.vulnerabilities

\* C20: the details view holds vulnerabilities only while the displayed scan is
\* COMPLETED, and every vulnerability it holds belongs to the displayed scan.
C20_VulnerabilitiesOfDisplayedScan ==
  detailsPage.vulnerabilities # <<>> =>
    /\ detailsPage.scan.status = COMPLETED
    /\ \A j \in DOMAIN detailsPage.vulnerabilities :
         detailsPage.vulnerabilities[j].scan_id = detailsPage.scan.id

RECURSIVE SumOfCounts(_)
\* the sum of vulnerabilityCount over a list of scans
SumOfCounts(scans) ==
  IF scans = <<>> THEN 0
  ELSE SumOfCounts(SubSeq(scans, 1, Len(scans) - 1)) + vulnerabilityCount(scans[Len(scans)])

\* C14: the count shown for a scan is vulnerabilities.length when the array is
\* present, else vulnerabilities_amount when that is present, else 0, and
\* computing it never fails: every row of the scan list shows vulnerabilityCount
\* of its scan without throwing, and the dashboard total is the sum of
\* vulnerabilityCount over the scans it loaded.
C14_VulnerabilityCountShown ==
  /\ \A i \in DOMAIN scansPage.scans :
       VulnerabilitiesCell(scansPage.scans[i]) =
         [threw |-> FALSE, value |-> vulnerabilityCount(scansPage.scans[i])]
  /\ totalVulnerabilities(dashboardPage.scans) = SumOfCounts(dashboardPage.scans)

\* the order of the statuses: PENDING -> RUNNING -> {COMPLETED | FAILED}
StatusRank(status) ==
  CASE status = PENDING -> 1
    [] status = RUNNING -> 2
    [] isTerminal(status) -> 3

\* C19: with a backend whose statuses only move forward, the status the scan
\* list displays for a scan id never moves backward across list loads whose
\* responses complete in any order, and a displayed COMPLETED or FAILED is
\* never replaced by another status.
C19_DisplayedStatusMonotonic ==
  [][\A i \in DOMAIN scansPage.scans \cap DOMAIN scansPage'.scans :
       /\ StatusRank(scansPage'.scans[i].status) >= StatusRank(scansPage.scans[i].status)
       /\ isTerminal(scansPage.scans[i].status) =>
            scansPage'.scans[i].status = scansPage.scans[i].status]_vars

\* C22: the navbar shows the link to the user-management view exactly when the
\* session user is present with role ADMIN, and those are the sessions the
\* /users route admits: the link is never shown where the route would
\* redirect, and never hidden where the route would admit.
C22_UsersLinkMatchesRoute ==
  /\ "/users" \in Navbar(user) <=> (user # NoUser /\ user = ADMIN)
  /\ ~isLoading =>
       ("/users" \in Navbar(user) <=> View("/users", user, isLoading) = "children")
  /\ ~("/users" \in Navbar(user)
       /\ View("/users", user, isLoading) \in {LoginPath, DefaultPath})
  /\ ~("/users" \notin Navbar(user) /\ View("/users", user, isLoading) = "children")

\* an administrator has followed the link and the route has admitted them
C22_Witness ==
  /\ user = ADMIN
  /\ href = "/users"
  /\ "/users" \in Navbar(user)
  /\ View(href, user, isLoading) = "children"

\* who issues the fetches of scan, user and CWE data
DataFetches == {"loadScans", "dashboard", "loadData", "loadUsers", "loadCWEs"}

\* the number of such fetches in flight
Fetches(reqs) ==
  BagCardinality([r \in {x \in BagToSet(reqs) : x.by \in DataFetches} |-> CopiesIn(r, reqs)])

\* the user makes a page fetch: a page mounts, a route parameter changes, or a
\* row's delete button is confirmed
UserFetches ==
  \/ ScansPageMount
  \/ handleDeleteScan
  \/ DashboardMount
  \/ \E id \in ScanIds : ScanIdChange(id)
  \/ UsersPageMount
  \/ handleDeleteUser
  \/ CWEPageMount

PageNames == {"scans", "details", "dashboard", "cwe", "users"}

\* each page: whether it is mounted, its loading flag, and who issues its fetch
PageFlags ==
  [scans     |-> [mounted |-> scansPage.mounted, loading |-> scansPage.loading,
                  by |-> "loadScans"],
   details   |-> [mounted |-> detailsPage.id # 0, loading |-> detailsPage.loading,
                  by |-> "loadData"],
   dashboard |-> [mounted |-> dashboardPage.mounted, loading |-> dashboardPage.loading,
                  by |-> "dashboard"],
   cwe       |-> [mounted |-> cwePage.mounted, loading |-> cwePage.loading,
                  by |-> "loadCWEs"],
   users     |-> [mounted |-> usersPage.mounted, loading |-> usersPage.loading,
                  by |-> "loadUsers"]]

\* a fetch of the mounted page settles in this step
SettlesLive(p) ==
  \E r \in BagToSet(inflight) :
    /\ r.live
    /\ r.by = PageFlags[p].by
    /\ inflight' = Drop(inflight, r)
    /\ last'.by = r.by

\* the router shows one page at a time, so the pages showing their loading
\* indicator are at most one
ShowingLoading == {p \in PageNames : PageFlags[p].mounted /\ PageFlags[p].loading}

====
